---- MODULE Spec2Model ----
(***************************************************************************)
(* Model of gtests/net/packetdrill/tcp_packet.c: the TCP flag-spec         *)
(* validator is_tcp_flags_spec_valid, the ACE decoder tcp_flag_ace_count   *)
(* and the packet builder new_tcp_packet.                                  *)
(*                                                                         *)
(* A C string is a sequence of one-character strings (the terminating NUL  *)
(* is the end of the sequence).  Multi-byte fields written through htons / *)
(* htonl are kept as their byte sequences in network order.                *)
(***************************************************************************)
EXTENDS Integers, Sequences, FiniteSets, TLC

VARIABLES args, pc, valid, error, packet, heap, allocs, frees, ret

vars == <<args, pc, valid, error, packet, heap, allocs, frees, ret>>

(***************************************************************************)
(* Bounds of the model.                                                    *)
(***************************************************************************)
\* longest flag string given to the validator alone (SpecFlags)
MaxFlagLen == 3
\* longest flag string given to new_tcp_packet (Spec)
MaxBuildFlagLen == 2
\* largest tcp_options->length given to new_tcp_packet
MaxOptionLength == 44

(***************************************************************************)
(* Static tables, tcp_packet.c:40-42.                                      *)
(***************************************************************************)
\* faulty variant of the table: the last letter is missing
valid_tcp_flags_short ==
    <<".", "F", "S", "R", "P", "E", "W",
      "0", "1", "2", "3", "4", "5", "6", "7">>
valid_tcp_flags ==
    <<".", "F", "S", "R", "P", "E", "W", "A",
      "0", "1", "2", "3", "4", "5", "6", "7">>
ace_tcp_flags == <<"0", "1", "2", "3", "4", "5", "6", "7">>
ecn_tcp_flags == <<"E", "W", "A">>

\* strchr(str, c) != NULL, for c other than NUL
strchr(str, c) == \E i \in 1..Len(str) : str[i] = c

\* (int) c of the characters the code does arithmetic on (ASCII)
CharCode(c) ==
    CASE c = "0" -> 48 [] c = "1" -> 49 [] c = "2" -> 50 [] c = "3" -> 51
      [] c = "4" -> 52 [] c = "5" -> 53 [] c = "6" -> 54 [] c = "7" -> 55
      [] c = "8" -> 56 [] c = "9" -> 57

(***************************************************************************)
(* asprintf(error, fmt, arg): the message is kept as its format and the    *)
(* text of its one argument ("" when the format has none).                 *)
(***************************************************************************)
NoError == [fmt |-> "", arg |-> ""]
InvalidFlagFmt == "Invalid TCP flag: '%c'"
ConflictingFlagFmt == "Conflicting TCP flag: '%c'"
asprintf(fmt, arg) == [fmt |-> fmt, arg |-> arg]

(***************************************************************************)
(* is_tcp_flags_spec_valid, tcp_packet.c:45-77.  ScanFlags is the for loop *)
(* from position i on, with the two locals has_ecn_flag and has_ace_flag;  *)
(* the result is the returned bool and what was stored through error.      *)
(***************************************************************************)
\* faulty variant of the loop: a second numeral is not rejected
RECURSIVE ScanFlagsTwoNumerals(_, _, _, _)
ScanFlagsTwoNumerals(flags, i, has_ecn_flag, has_ace_flag) ==
    IF i > Len(flags)
    THEN [ok |-> TRUE, error |-> NoError]
    ELSE LET s == flags[i]
             is_ecn == strchr(ecn_tcp_flags, s)
             is_ace == strchr(ace_tcp_flags, s)
             ecn1 == has_ecn_flag \/ is_ecn
         IN  IF ~strchr(valid_tcp_flags, s)
             THEN [ok |-> FALSE, error |-> asprintf(InvalidFlagFmt, s)]
             ELSE IF is_ecn /\ has_ace_flag
             THEN [ok |-> FALSE, error |-> asprintf(ConflictingFlagFmt, s)]
             ELSE IF is_ace /\ ecn1
             THEN [ok |-> FALSE, error |-> asprintf(ConflictingFlagFmt, s)]
             ELSE ScanFlagsTwoNumerals(flags, i + 1, ecn1, has_ace_flag \/ is_ace)

RECURSIVE ScanFlags(_, _, _, _)
ScanFlags(flags, i, has_ecn_flag, has_ace_flag) ==
    IF i > Len(flags)
    THEN [ok |-> TRUE, error |-> NoError]
    ELSE LET s == flags[i]
             is_ecn == strchr(ecn_tcp_flags, s)
             is_ace == strchr(ace_tcp_flags, s)
             ecn1 == has_ecn_flag \/ is_ecn
         IN  IF ~strchr(valid_tcp_flags, s)
             THEN [ok |-> FALSE, error |-> asprintf(InvalidFlagFmt, s)]
             ELSE IF is_ecn /\ has_ace_flag
             THEN [ok |-> FALSE, error |-> asprintf(ConflictingFlagFmt, s)]
             ELSE IF is_ace /\ ecn1
             THEN [ok |-> FALSE, error |-> asprintf(ConflictingFlagFmt, s)]
             ELSE IF is_ace /\ has_ace_flag
             THEN [ok |-> FALSE, error |-> asprintf(ConflictingFlagFmt, s)]
             ELSE ScanFlags(flags, i + 1, ecn1, has_ace_flag \/ is_ace)

is_tcp_flags_spec_valid(flags) == ScanFlags(flags, 1, FALSE, FALSE)

\* is_tcp_flag_set, tcp_packet.c:80-83
is_tcp_flag_set(flag, flags) == IF strchr(flags, flag) THEN 1 ELSE 0

\* tcp_flag_ace_count, tcp_packet.c:86-96: the first numeric flag, else 0
RECURSIVE AceScan(_, _)
AceScan(flags, i) ==
    IF i > Len(flags) THEN 0
    ELSE IF strchr(ace_tcp_flags, flags[i])
         THEN CharCode(flags[i]) - CharCode("0")
         ELSE AceScan(flags, i + 1)

tcp_flag_ace_count(flags) == AceScan(flags, 1)

(***************************************************************************)
(* Flag strings given as input: every character of the table and two that  *)
(* are not in it (a letter and a digit above 7).                           *)
(***************************************************************************)
FlagChars ==
    {".", "F", "S", "R", "P", "E", "W", "A",
     "0", "1", "2", "3", "4", "5", "6", "7", "x", "8"}

StringsUpTo(chars, n) == UNION {[1..k -> chars] : k \in 0..n}

(***************************************************************************)
(* Constants of the headers this file includes (tcp.h, udp.h, ip.h,        *)
(* packet.h, tcp_options.h).                                               *)
(***************************************************************************)
\* sizeof(struct tcp)
sizeof_tcp == 20
\* sizeof(struct udp)
sizeof_udp == 8
\* MAX_TCP_HEADER_BYTES: the 4-bit data offset counts at most 15 words
MAX_TCP_HEADER_BYTES == 60
\* MAX_TCP_DATAGRAM_BYTES
MAX_TCP_DATAGRAM_BYTES == 65536
\* MAX_TCP_OPTION_BYTES: the size of tcp_options->data
MAX_TCP_OPTION_BYTES == 40
\* TCPOPT_NOP, the option kind the input blobs are filled with
TCPOPT_NOP == 1
\* ip_header_min_len(address_family): sizeof(struct ipv4) or sizeof(struct ipv6)
ip_header_min_len(address_family) ==
    IF address_family = "AF_INET" THEN 20 ELSE 40

\* the header type set_packet_ip_header appends for the family
ip_header_type(address_family) ==
    IF address_family = "AF_INET" THEN "HEADER_IPV4" ELSE "HEADER_IPV6"

\* htons / htonl: the bytes in memory, most significant first, of the value
\* converted to u16 / of the u32 value (the u32 inputs of the model stay below
\* 2^31, the largest integer the checker holds, so no conversion is written)
htons(x) == <<(x % 65536) \div 256, x % 256>>
htonl(x) ==
    <<(x \div 16777216) % 256, (x \div 65536) % 256,
      (x \div 256) % 256, x % 256>>

\* "%d" of the small numbers the messages print
Itoa(n) == CASE n = 0 -> "0" [] n = 1 -> "1" [] n = 2 -> "2" [] n = 3 -> "3"

(***************************************************************************)
(* The lengths new_tcp_packet computes on entry, tcp_packet.c:118-125.     *)
(***************************************************************************)
ip_option_bytes == 0
tcp_option_bytes(a) ==
    IF a.tcp_options.present THEN a.tcp_options.length ELSE 0
ip_header_bytes(a) == ip_header_min_len(a.address_family) + ip_option_bytes
udp_header_bytes == sizeof_udp
tcp_header_bytes(a) == sizeof_tcp + tcp_option_bytes(a)
\* faulty variant: both ports are asked for
encapsulate_both(a) == (a.udp_src_port > 0) /\ (a.udp_dst_port > 0)
encapsulate(a) == (a.udp_src_port > 0) \/ (a.udp_dst_port > 0)
\* faulty variant: the UDP header is left out of the size
ip_bytes_no_udp(a) ==
    ip_header_bytes(a) + tcp_header_bytes(a) + a.tcp_payload_bytes
\* ip_bytes as of line 153
ip_bytes(a) ==
    ip_header_bytes(a) + tcp_header_bytes(a) + a.tcp_payload_bytes
        + (IF encapsulate(a) THEN udp_header_bytes ELSE 0)

IpPaddingFmt ==
    "IP options are not padded correctly to ensure IP header is a multiple of 4 bytes: %d excess bytes"
TcpPaddingFmt ==
    "TCP options are not padded correctly to ensure TCP header is a multiple of 4 bytes: %d excess bytes"
HeaderTooLargeFmt == "TCP header too large"
SegmentTooLargeFmt == "TCP segment too large"
WindowRequiredFmt == "window must be specified for inbound packets"

\* faulty variant: the header ceiling is compared with >=
LengthChecksOffByOne(a) ==
    IF ip_option_bytes % 4 # 0
    THEN asprintf(IpPaddingFmt, Itoa(ip_option_bytes % 4))
    ELSE IF tcp_option_bytes(a) % 4 # 0
    THEN asprintf(TcpPaddingFmt, Itoa(tcp_option_bytes(a) % 4))
    ELSE IF tcp_header_bytes(a) >= MAX_TCP_HEADER_BYTES
    THEN asprintf(HeaderTooLargeFmt, "")
    ELSE IF ip_bytes(a) > MAX_TCP_DATAGRAM_BYTES
    THEN asprintf(SegmentTooLargeFmt, "")
    ELSE NoError

\* the sanity checks of tcp_packet.c:128-157, in their order: the message of
\* the first that fails, NoError when all pass
LengthChecks(a) ==
    IF ip_option_bytes % 4 # 0
    THEN asprintf(IpPaddingFmt, Itoa(ip_option_bytes % 4))
    ELSE IF tcp_option_bytes(a) % 4 # 0
    THEN asprintf(TcpPaddingFmt, Itoa(tcp_option_bytes(a) % 4))
    ELSE IF tcp_header_bytes(a) > MAX_TCP_HEADER_BYTES
    THEN asprintf(HeaderTooLargeFmt, "")
    ELSE IF ip_bytes(a) > MAX_TCP_DATAGRAM_BYTES
    THEN asprintf(SegmentTooLargeFmt, "")
    ELSE NoError

(***************************************************************************)
(* Inputs.  A tcp_options argument is NULL (present = FALSE) or an object  *)
(* with a length and its data array.                                       *)
(***************************************************************************)
Min(x, y) == IF x < y THEN x ELSE y

NoOptions == [present |-> FALSE, length |-> 0, data |-> <<>>]
Options(n) ==
    [present |-> TRUE, length |-> n,
     data |-> [i \in 1..Min(n, MAX_TCP_OPTION_BYTES) |-> TCPOPT_NOP]]

WINDOW_UNSPECIFIED == -1

\* flag strings are the varied input; the rest takes a few values
FlagsFocus ==
    [address_family : {"AF_INET"},
     direction : {"DIRECTION_INBOUND", "DIRECTION_OUTBOUND"},
     ecn : {"ECN_NONE"},
     flags : StringsUpTo(FlagChars, MaxBuildFlagLen),
     start_sequence : {1},
     tcp_payload_bytes : {0},
     ack_sequence : {0},
     window : {WINDOW_UNSPECIFIED, 100},
     tcp_options : {NoOptions, Options(MAX_TCP_OPTION_BYTES),
                    Options(MaxOptionLength)},
     ignore_ts_val : {FALSE}, abs_ts_ecr : {FALSE},
     abs_seq : {FALSE}, ignore_seq : {FALSE},
     udp_src_port : {0}, udp_dst_port : {0}]

\* the lengths are the varied input
LayoutFocus ==
    [address_family : {"AF_INET", "AF_INET6"},
     direction : {"DIRECTION_INBOUND", "DIRECTION_OUTBOUND"},
     ecn : {"ECN_NONE"},
     flags : {<<".">>, <<"x">>, <<"E", "0">>},
     start_sequence : {1},
     tcp_payload_bytes : {0, 65480, 65488, 65496, 65535},
     ack_sequence : {0},
     window : {WINDOW_UNSPECIFIED, 100},
     tcp_options : {NoOptions} \cup {Options(n) : n \in 0..MaxOptionLength},
     ignore_ts_val : {FALSE}, abs_ts_ecr : {FALSE},
     abs_seq : {FALSE}, ignore_seq : {FALSE},
     udp_src_port : {0, 5000}, udp_dst_port : {0, 6000}]

\* the header field values and the four hint inputs are the varied input
FieldsFocus ==
    [address_family : {"AF_INET"},
     direction : {"DIRECTION_INBOUND", "DIRECTION_OUTBOUND"},
     ecn : {"ECN_NONE", "ECN_ECT0"},
     flags : {<<"S">>, <<".", "5">>},
     start_sequence : {1, 2147483647},
     tcp_payload_bytes : {0},
     ack_sequence : {0, 16909060},
     window : {WINDOW_UNSPECIFIED, 0, 100, 70000},
     tcp_options : {NoOptions, Options(0), Options(4)},
     ignore_ts_val : BOOLEAN, abs_ts_ecr : BOOLEAN,
     abs_seq : BOOLEAN, ignore_seq : BOOLEAN,
     udp_src_port : {0, 5000}, udp_dst_port : {0, 6000}]

Inputs == FlagsFocus \cup LayoutFocus \cup FieldsFocus

(***************************************************************************)
(* The packet container (packet.h, packet.c) and the IP header writer      *)
(* (ip_packet.c), as new_tcp_packet uses them.  A packet object holds its  *)
(* tags, its list of headers and the buffer, the buffer as the fields of   *)
(* the headers laid in it; the payload bytes stay the zeroes of the        *)
(* memset and are counted by buffer_size.                                  *)
(***************************************************************************)
ZeroTcp ==
    [src_port |-> <<0, 0>>, dst_port |-> <<0, 0>>,
     seq |-> <<0, 0, 0, 0>>, ack_seq |-> <<0, 0, 0, 0>>,
     doff |-> 0, window |-> <<0, 0>>, check |-> <<0, 0>>,
     urg_ptr |-> <<0, 0>>,
     fin |-> 0, syn |-> 0, rst |-> 0, psh |-> 0, ack |-> 0, urg |-> 0,
     ece |-> 0, cwr |-> 0, ae |-> 0]

\* packet_new(ip_bytes) followed by the memset of line 164
packet_new(size) ==
    [buffer_size |-> size, direction |-> "DIRECTION_INVALID", flags |-> {},
     ecn |-> "ECN_NONE", ip_bytes |-> 0, ip |-> <<>>, headers |-> <<>>,
     udp |-> <<>>, tcp_offset |-> -1, tcp |-> ZeroTcp, options |-> <<>>]

\* the offset in the buffer at which the next header starts
HeadersEnd(p) ==
    IF p.headers = <<>> THEN 0
    ELSE p.headers[Len(p.headers)].offset
             + p.headers[Len(p.headers)].header_bytes

\* packet_append_header(packet, type, header_bytes)
packet_append_header(p, type, bytes) ==
    [p EXCEPT !.headers =
        Append(@, [type |-> type, header_bytes |-> bytes, total_bytes |-> 0,
                   offset |-> HeadersEnd(p)])]

\* header->total_bytes = n, for the header just appended
SetTotalBytes(p, n) ==
    [p EXCEPT !.headers[Len(p.headers)].total_bytes = n]

\* set_packet_ip_header(packet, address_family, ip_bytes, ecn, protocol)
set_packet_ip_header(p, address_family, len, ecn, protocol) ==
    LET q == packet_append_header(p, ip_header_type(address_family),
                                  ip_header_min_len(address_family))
    IN  [SetTotalBytes(q, len) EXCEPT
            !.ip = <<[address_family |-> address_family, total_len |-> len,
                      ecn |-> ecn, protocol |-> protocol]>>]

(***************************************************************************)
(* new_tcp_packet, tcp_packet.c:98-257, in the order of its statements.    *)
(***************************************************************************)
Init ==
    /\ args \in Inputs
    /\ pc = "check_lengths"
    /\ valid = FALSE
    /\ error = NoError
    /\ packet = "NULL"
    /\ heap = <<>>
    /\ allocs = 0
    /\ frees = 0
    /\ ret = "pending"

\* faulty variant: the flag spec is validated ahead of the length checks
CheckFlagsThenLengths ==
    /\ pc = "check_lengths"
    /\ LET r == is_tcp_flags_spec_valid(args.flags)
           e == LengthChecks(args)
       IN  IF ~r.ok
           THEN /\ error' = r.error
                /\ ret' = "NULL"
                /\ pc' = "done"
           ELSE IF e # NoError
           THEN /\ error' = e
                /\ ret' = "NULL"
                /\ pc' = "done"
           ELSE /\ pc' = "check_flags"
                /\ UNCHANGED <<error, ret>>
    /\ UNCHANGED <<args, valid, packet, heap, allocs, frees>>

\* lines 128-157
CheckLengths ==
    /\ pc = "check_lengths"
    /\ LET e == LengthChecks(args)
       IN  IF e # NoError
           THEN /\ error' = e
                /\ ret' = "NULL"
                /\ pc' = "done"
           ELSE /\ pc' = "check_flags"
                /\ UNCHANGED <<error, ret>>
    /\ UNCHANGED <<args, valid, packet, heap, allocs, frees>>

\* lines 159-160
CheckFlags ==
    /\ pc = "check_flags"
    /\ LET r == is_tcp_flags_spec_valid(args.flags)
       IN  /\ valid' = r.ok
           /\ IF ~r.ok
              THEN /\ error' = r.error
                   /\ ret' = "NULL"
                   /\ pc' = "done"
              ELSE /\ pc' = "allocate"
                   /\ UNCHANGED <<error, ret>>
    /\ UNCHANGED <<args, packet, heap, allocs, frees>>

\* lines 166-168: the tags of the new packet
SetTags(p, a) ==
    [p EXCEPT !.direction = a.direction,
              !.flags = IF encapsulate(a) THEN {"FLAGS_UDP_ENCAPSULATED"} ELSE {},
              !.ecn = a.ecn]

\* lines 174-179: the UDP header of an encapsulated segment
SetUdpHeader(p, a) ==
    LET q == packet_append_header(p, "HEADER_UDP", udp_header_bytes)
        n == udp_header_bytes + tcp_header_bytes(a) + a.tcp_payload_bytes
    IN  [SetTotalBytes(q, n) EXCEPT
            !.udp = <<[src_port |-> htons(a.udp_src_port),
                       dst_port |-> htons(a.udp_dst_port),
                       len |-> htons(n),
                       check |-> htons(0)]>>]

\* lines 170-183: the IP header and, when encapsulating, the UDP header
SetIpHeaders(p, a) ==
    IF encapsulate(a)
    THEN SetUdpHeader(
             set_packet_ip_header(p, a.address_family, ip_bytes(a), a.ecn,
                                  "IPPROTO_UDP"), a)
    ELSE set_packet_ip_header(p, a.address_family, ip_bytes(a), a.ecn,
                              "IPPROTO_TCP")

\* lines 185-193: the TCP header is appended and packet->tcp located
LocateTcp(p, a) ==
    LET q == SetTotalBytes(
                 packet_append_header(p, "HEADER_TCP", tcp_header_bytes(a)),
                 tcp_header_bytes(a) + a.tcp_payload_bytes)
    IN  [q EXCEPT
            !.tcp_offset = IF encapsulate(a)
                           THEN ip_header_bytes(a) + udp_header_bytes
                           ELSE ip_header_bytes(a),
            \* the option bytes after the fixed header, zero since the memset
            !.options = [i \in 1..tcp_option_bytes(a) |-> 0]]

\* lines 197-201; doff is a 4-bit field
SetTcpFields(p, a) ==
    [p EXCEPT !.tcp.src_port = htons(0),
              !.tcp.dst_port = htons(0),
              !.tcp.seq = htonl(a.start_sequence),
              !.tcp.ack_seq = htonl(a.ack_sequence),
              !.tcp.doff = (tcp_header_bytes(a) \div 4) % 16]

\* lines 163-201
AllocPacket ==
    /\ pc = "allocate"
    /\ packet' = "p"
    /\ allocs' = allocs + 1
    /\ heap' = <<SetTcpFields(
                    LocateTcp(
                      SetIpHeaders(
                        SetTags(packet_new(ip_bytes(args)), args), args),
                      args),
                    args)>>
    /\ pc' = "set_window"
    /\ UNCHANGED <<args, valid, error, frees, ret>>

\* faulty variant: the hint is not set
SetWindowFieldNoHint(p, a) ==
    IF a.window = WINDOW_UNSPECIFIED
    THEN [p EXCEPT !.tcp.window = <<0, 0>>]
    ELSE [p EXCEPT !.tcp.window = htons(a.window)]

\* lines 209-213, the window field and its hint
SetWindowField(p, a) ==
    IF a.window = WINDOW_UNSPECIFIED
    THEN [p EXCEPT !.tcp.window = <<0, 0>>,
                   !.flags = @ \cup {"FLAG_WIN_NOCHECK"}]
    ELSE [p EXCEPT !.tcp.window = htons(a.window)]

\* faulty variant: the packet is not freed on the error path
SetWindowLeak ==
    /\ pc = "set_window"
    /\ IF args.window = WINDOW_UNSPECIFIED /\ args.direction = "DIRECTION_INBOUND"
       THEN /\ error' = asprintf(WindowRequiredFmt, "")
            /\ ret' = "NULL"
            /\ pc' = "done"
            /\ UNCHANGED <<heap, frees>>
       ELSE /\ heap' = <<SetWindowField(heap[1], args)>>
            /\ pc' = "set_flags"
            /\ UNCHANGED <<error, frees, ret>>
    /\ UNCHANGED <<args, valid, packet, allocs>>

\* lines 202-213
SetWindow ==
    /\ pc = "set_window"
    /\ IF args.window = WINDOW_UNSPECIFIED /\ args.direction = "DIRECTION_INBOUND"
       THEN /\ error' = asprintf(WindowRequiredFmt, "")
            \* packet_free(packet)
            /\ heap' = <<>>
            /\ frees' = frees + 1
            /\ ret' = "NULL"
            /\ pc' = "done"
       ELSE /\ heap' = <<SetWindowField(heap[1], args)>>
            /\ pc' = "set_flags"
            /\ UNCHANGED <<error, frees, ret>>
    /\ UNCHANGED <<args, valid, packet, allocs>>

Bit(b) == IF b THEN 1 ELSE 0

\* faulty variant: the masks of CWR and AE are exchanged
EcnBitsSwapped(flags) ==
    LET ace == tcp_flag_ace_count(flags)
    IN  IF ace # 0
        THEN [ece |-> Bit(ace % 2 = 1),
              cwr |-> Bit((ace \div 4) % 2 = 1),
              ae  |-> Bit((ace \div 2) % 2 = 1)]
        ELSE [ece |-> is_tcp_flag_set("E", flags),
              cwr |-> is_tcp_flag_set("W", flags),
              ae  |-> is_tcp_flag_set("A", flags)]

\* lines 223-232: the three ECN bits, from the numeral or from the letters
EcnBits(flags) ==
    LET ace == tcp_flag_ace_count(flags)
    IN  IF ace # 0
        THEN [ece |-> Bit(ace % 2 = 1),
              cwr |-> Bit((ace \div 2) % 2 = 1),
              ae  |-> Bit((ace \div 4) % 2 = 1)]
        ELSE [ece |-> is_tcp_flag_set("E", flags),
              cwr |-> is_tcp_flag_set("W", flags),
              ae  |-> is_tcp_flag_set("A", flags)]

\* lines 214-232
SetFlagBits(p, a) ==
    [p EXCEPT !.tcp.check = <<0, 0>>,
              !.tcp.urg_ptr = <<0, 0>>,
              !.tcp.fin = is_tcp_flag_set("F", a.flags),
              !.tcp.syn = is_tcp_flag_set("S", a.flags),
              !.tcp.rst = is_tcp_flag_set("R", a.flags),
              !.tcp.psh = is_tcp_flag_set("P", a.flags),
              !.tcp.ack = is_tcp_flag_set(".", a.flags),
              !.tcp.urg = 0,
              !.tcp.ece = EcnBits(a.flags).ece,
              !.tcp.cwr = EcnBits(a.flags).cwr,
              !.tcp.ae = EcnBits(a.flags).ae]

SetTcpFlags ==
    /\ pc = "set_flags"
    /\ heap' = <<SetFlagBits(heap[1], args)>>
    /\ pc' = "set_options"
    /\ UNCHANGED <<args, valid, error, packet, allocs, frees, ret>>

\* faulty variant: an options object of length 0 is taken for none
SetOptionsEmptyUnchecked(p, a) ==
    IF ~a.tcp_options.present \/ a.tcp_options.length = 0
    THEN [p EXCEPT !.flags = @ \cup {"FLAG_OPTIONS_NOCHECK"}]
    ELSE [p EXCEPT !.options = SubSeq(a.tcp_options.data, 1, a.tcp_options.length)]

\* lines 234-240
SetOptions(p, a) ==
    IF ~a.tcp_options.present
    THEN [p EXCEPT !.flags = @ \cup {"FLAG_OPTIONS_NOCHECK"}]
    ELSE IF a.tcp_options.length > 0
    THEN [p EXCEPT !.options = SubSeq(a.tcp_options.data, 1, a.tcp_options.length)]
    ELSE p

\* lines 242-253
SetHints(p, a) ==
    [p EXCEPT !.flags =
        @ \cup (IF a.ignore_ts_val THEN {"FLAG_IGNORE_TS_VAL"} ELSE {})
          \cup (IF a.abs_ts_ecr THEN {"FLAG_ABSOLUTE_TS_ECR"} ELSE {})
          \cup (IF a.abs_seq THEN {"FLAG_ABSOLUTE_SEQ"} ELSE {})
          \cup (IF a.ignore_seq THEN {"FLAG_IGNORE_SEQ"} ELSE {})]

\* lines 234-256
SetOptionsAndReturn ==
    /\ pc = "set_options"
    /\ heap' = <<[SetHints(SetOptions(heap[1], args), args)
                     EXCEPT !.ip_bytes = ip_bytes(args)]>>
    /\ ret' = packet
    /\ pc' = "done"
    /\ UNCHANGED <<args, valid, error, packet, allocs, frees>>

Next ==
    \/ CheckLengths
    \/ CheckFlags
    \/ AllocPacket
    \/ SetWindow
    \/ SetTcpFlags
    \/ SetOptionsAndReturn

Spec == Init /\ [][Next]_vars

(***************************************************************************)
(* SpecFlags: the validator called on its own.                             *)
(***************************************************************************)
FlagsOnly(f) ==
    [address_family |-> "AF_INET", direction |-> "DIRECTION_OUTBOUND",
     ecn |-> "ECN_NONE", flags |-> f, start_sequence |-> 0,
     tcp_payload_bytes |-> 0, ack_sequence |-> 0, window |-> 0,
     tcp_options |-> NoOptions,
     ignore_ts_val |-> FALSE, abs_ts_ecr |-> FALSE,
     abs_seq |-> FALSE, ignore_seq |-> FALSE,
     udp_src_port |-> 0, udp_dst_port |-> 0]

InitFlags ==
    /\ args \in {FlagsOnly(f) : f \in StringsUpTo(FlagChars, MaxFlagLen)}
    /\ pc = "validate"
    /\ valid = FALSE
    /\ error = NoError
    /\ packet = "NULL"
    /\ heap = <<>>
    /\ allocs = 0
    /\ frees = 0
    /\ ret = "pending"

Validate ==
    /\ pc = "validate"
    /\ LET r == is_tcp_flags_spec_valid(args.flags)
       IN  /\ valid' = r.ok
           /\ error' = r.error
    /\ pc' = "validated"
    /\ UNCHANGED <<args, packet, heap, allocs, frees, ret>>

NextFlags == Validate

SpecFlags == InitFlags /\ [][NextFlags]_vars

(***************************************************************************)
(* What the properties below are stated with, written from the wording of  *)
(* the claims and not from the tables of the code.                         *)
(***************************************************************************)
Alphabet ==
    {".", "F", "S", "R", "P", "E", "W", "A",
     "0", "1", "2", "3", "4", "5", "6", "7"}
Numerals == {"0", "1", "2", "3", "4", "5", "6", "7"}
EcnLetters == {"E", "W", "A"}

Positions(f, chars) == {i \in 1..Len(f) : f[i] \in chars}
OverAlphabet(f) == \A i \in 1..Len(f) : f[i] \in Alphabet
\* a numeral together with an ECN letter, or two numerals
HasConflict(f) ==
    \/ Positions(f, Numerals) # {} /\ Positions(f, EcnLetters) # {}
    \/ Cardinality(Positions(f, Numerals)) >= 2
Least(S) == CHOOSE i \in S : \A j \in S : i <= j
\* the position at which a left-to-right scan first has a conflict behind it
FirstConflict(f) == Least({i \in 1..Len(f) : HasConflict(SubSeq(f, 1, i))})
FirstOutside(f) == Least({i \in 1..Len(f) : f[i] \notin Alphabet})
Validated == pc = "validated"

\* C1 as stated: a string over the alphabet is accepted, a string with a
\* character outside it is rejected with "Invalid TCP flag"
C1_Original ==
    Validated =>
        /\ OverAlphabet(args.flags) => valid
        /\ ~OverAlphabet(args.flags) =>
               ~valid /\ error.fmt = InvalidFlagFmt

\* C1 amended: a string over the alphabet is never rejected with "Invalid TCP
\* flag": it is accepted unless it has a conflict (a numeral with an ECN
\* letter, or two numerals), and then it is rejected with "Conflicting TCP
\* flag"; a string with a character outside the alphabet is always rejected,
\* with "Invalid TCP flag" naming the first such character unless a conflict
\* is detected before that character, and then with "Conflicting TCP flag"
C1_Amended ==
    Validated =>
        LET f == args.flags
        IN  /\ OverAlphabet(f) /\ ~HasConflict(f) => valid /\ error = NoError
            /\ OverAlphabet(f) /\ HasConflict(f) =>
                   ~valid /\ error.fmt = ConflictingFlagFmt
            /\ ~OverAlphabet(f) =>
                   /\ ~valid
                   /\ IF HasConflict(SubSeq(f, 1, FirstOutside(f) - 1))
                      THEN error.fmt = ConflictingFlagFmt
                      ELSE error = [fmt |-> InvalidFlagFmt,
                                    arg |-> f[FirstOutside(f)]]

\* a conflict in front of a character outside the alphabet
C1_Witness ==
    /\ Validated
    /\ args.flags = <<"E", "0", "x">>
    /\ ~valid
    /\ error = [fmt |-> ConflictingFlagFmt, arg |-> "0"]

\* C2: a string over the alphabet with a numeral and an ECN letter (in either
\* order) or with two numerals is rejected with "Conflicting TCP flag", and
\* the character reported is the one at which the scan first has the conflict
C2_ConflictRejected ==
    Validated /\ OverAlphabet(args.flags) /\ HasConflict(args.flags) =>
        /\ ~valid
        /\ error = [fmt |-> ConflictingFlagFmt,
                    arg |-> args.flags[FirstConflict(args.flags)]]

\* the same numeral twice, after a letter that is no ECN letter
C2_Witness ==
    /\ Validated
    /\ args.flags = <<"S", "3", "3">>
    /\ error = [fmt |-> ConflictingFlagFmt, arg |-> "3"]

(***************************************************************************)
(* Properties of new_tcp_packet (Spec).                                    *)
(***************************************************************************)
Done == pc = "done"
Succeeded == Done /\ ret = "p"
Failed == Done /\ ret = "NULL"
LengthFmts == {IpPaddingFmt, TcpPaddingFmt, HeaderTooLargeFmt, SegmentTooLargeFmt}
FlagFmts == {InvalidFlagFmt, ConflictingFlagFmt}
\* the call has gone through is_tcp_flags_spec_valid
ValidatorRan ==
    \/ pc \in {"allocate", "set_window", "set_flags", "set_options"}
    \/ Done /\ error.fmt \notin LengthFmts

FlagsOK(f) == OverAlphabet(f) /\ ~HasConflict(f)
LengthsOK(a) ==
    /\ tcp_option_bytes(a) % 4 = 0
    /\ tcp_header_bytes(a) <= MAX_TCP_HEADER_BYTES
    /\ ip_bytes(a) <= MAX_TCP_DATAGRAM_BYTES
WindowOK(a) ==
    ~(a.window = WINDOW_UNSPECIFIED /\ a.direction = "DIRECTION_INBOUND")

NumeralValue(c) ==
    CASE c = "0" -> 0 [] c = "1" -> 1 [] c = "2" -> 2 [] c = "3" -> 3
      [] c = "4" -> 4 [] c = "5" -> 5 [] c = "6" -> 6 [] c = "7" -> 7
\* ECE = bit 0, CWR = bit 1, AE = bit 2 of d
BitsOf(d) == [ece |-> d % 2, cwr |-> (d \div 2) % 2, ae |-> d \div 4]
LetterBits(f) ==
    [ece |-> IF Positions(f, {"E"}) # {} THEN 1 ELSE 0,
     cwr |-> IF Positions(f, {"W"}) # {} THEN 1 ELSE 0,
     ae  |-> IF Positions(f, {"A"}) # {} THEN 1 ELSE 0]
HeaderEcnBits(p) == [ece |-> p.tcp.ece, cwr |-> p.tcp.cwr, ae |-> p.tcp.ae]
OneNumeralNoLetters(f) ==
    /\ Cardinality(Positions(f, Numerals)) = 1
    /\ Positions(f, EcnLetters) = {}
TheNumeral(f) == f[Least(Positions(f, Numerals))]
\* the ECN bits of a built header come from one encoding: from the numeral
\* when there is one (and then no ECN letter is in the string), else from
\* the letters
OneEncoding(f, p) ==
    IF Positions(f, Numerals) # {}
    THEN /\ Positions(f, EcnLetters) = {}
         /\ HeaderEcnBits(p) = BitsOf(NumeralValue(TheNumeral(f)))
    ELSE HeaderEcnBits(p) = LetterBits(f)

\* C3 as stated: any string with exactly one numeral and no ECN letter passes
\* validation and gives the header the bits of the numeral; a built header
\* has its ECN bits from one encoding
C3_Original ==
    /\ ValidatorRan /\ OneNumeralNoLetters(args.flags) =>
           /\ valid
           /\ Succeeded =>
                  HeaderEcnBits(heap[1]) = BitsOf(NumeralValue(TheNumeral(args.flags)))
    /\ Succeeded => OneEncoding(args.flags, heap[1])

\* C3 amended: the same for the strings over the allowed alphabet (a string
\* with a character outside it is rejected whatever numeral it holds)
C3_Amended ==
    /\ ValidatorRan /\ OverAlphabet(args.flags)
           /\ OneNumeralNoLetters(args.flags) =>
           /\ valid
           /\ Succeeded =>
                  HeaderEcnBits(heap[1]) = BitsOf(NumeralValue(TheNumeral(args.flags)))
    /\ Succeeded => OneEncoding(args.flags, heap[1])

\* a packet built from "S5": ECE and AE set, CWR clear
C3_Witness ==
    /\ Succeeded
    /\ args.flags = <<"S", "5">>
    /\ HeaderEcnBits(heap[1]) = [ece |-> 1, cwr |-> 0, ae |-> 1]

\* C4 as stated: with the window sentinel an inbound call fails with "window
\* must be specified", an outbound call succeeds with window field 0 and
\* FLAG_WIN_NOCHECK
C4_Original ==
    Done /\ args.window = WINDOW_UNSPECIFIED =>
        /\ args.direction = "DIRECTION_INBOUND" =>
               ret = "NULL" /\ error.fmt = WindowRequiredFmt
        /\ args.direction = "DIRECTION_OUTBOUND" =>
               /\ ret = "p"
               /\ heap[1].tcp.window = <<0, 0>>
               /\ "FLAG_WIN_NOCHECK" \in heap[1].flags

\* C4 amended: with the window sentinel an inbound call always fails, and
\* with "window must be specified" exactly when the length checks and the
\* flag validation, which come first, pass; an outbound call succeeds
\* exactly when those pass, and then the window field is 0 and
\* FLAG_WIN_NOCHECK is set
C4_Amended ==
    Done /\ args.window = WINDOW_UNSPECIFIED =>
        /\ args.direction = "DIRECTION_INBOUND" =>
               /\ ret = "NULL"
               /\ error.fmt = WindowRequiredFmt
                      <=> LengthsOK(args) /\ FlagsOK(args.flags)
        /\ args.direction = "DIRECTION_OUTBOUND" =>
               /\ ret = "p" <=> LengthsOK(args) /\ FlagsOK(args.flags)
               /\ ret = "p" =>
                      /\ heap[1].tcp.window = <<0, 0>>
                      /\ "FLAG_WIN_NOCHECK" \in heap[1].flags

C4_Witness ==
    /\ Succeeded
    /\ args.window = WINDOW_UNSPECIFIED
    /\ args.direction = "DIRECTION_OUTBOUND"
    /\ args.flags = <<"S">>
    /\ heap[1].tcp.window = <<0, 0>>
    /\ heap[1].tcp.syn = 1
    /\ "FLAG_WIN_NOCHECK" \in heap[1].flags

\* C5 as stated: a TCP header above MAX_TCP_HEADER_BYTES fails with "TCP
\* header too large", one of exactly MAX_TCP_HEADER_BYTES succeeds
C5_Original ==
    Done =>
        /\ tcp_header_bytes(args) > MAX_TCP_HEADER_BYTES =>
               ret = "NULL" /\ error.fmt = HeaderTooLargeFmt
        /\ tcp_header_bytes(args) = MAX_TCP_HEADER_BYTES => ret = "p"

\* C5 amended: a TCP header above MAX_TCP_HEADER_BYTES always fails, with
\* "TCP header too large" when the option bytes are a multiple of 4 and with
\* the TCP options padding message when they are not; a header of exactly
\* MAX_TCP_HEADER_BYTES never fails with "TCP header too large", and the call
\* succeeds exactly when the datagram fits, the flag spec is valid and the
\* window is given or the direction outbound
C5_Amended ==
    Done =>
        /\ tcp_header_bytes(args) > MAX_TCP_HEADER_BYTES =>
               /\ ret = "NULL"
               /\ error.fmt = IF tcp_option_bytes(args) % 4 = 0
                              THEN HeaderTooLargeFmt ELSE TcpPaddingFmt
        /\ tcp_header_bytes(args) = MAX_TCP_HEADER_BYTES =>
               /\ error.fmt # HeaderTooLargeFmt
               /\ ret = "p" <=>
                      /\ ip_bytes(args) <= MAX_TCP_DATAGRAM_BYTES
                      /\ FlagsOK(args.flags)
                      /\ WindowOK(args)

\* a header of exactly the maximum is built, with data offset 15
C5_Witness ==
    /\ Succeeded
    /\ tcp_header_bytes(args) = MAX_TCP_HEADER_BYTES
    /\ heap[1].tcp.doff = 15

\* C6: in a returned packet the data offset times 4 is the TCP header length
\* (fixed header + options), both header lengths are multiples of 4, and the
\* buffer size and the recorded ip_bytes are IP header + UDP header (when
\* encapsulated) + TCP header + payload, at most MAX_TCP_DATAGRAM_BYTES
C6_Sizes ==
    ret = "p" =>
        LET p == heap[1]
            total == ip_header_min_len(args.address_family)
                       + (IF args.udp_src_port # 0 \/ args.udp_dst_port # 0
                          THEN sizeof_udp ELSE 0)
                       + sizeof_tcp + tcp_option_bytes(args)
                       + args.tcp_payload_bytes
        IN  /\ p.tcp.doff \in 0..15
            /\ p.tcp.doff * 4 = sizeof_tcp + tcp_option_bytes(args)
            /\ tcp_header_bytes(args) % 4 = 0
            /\ ip_header_bytes(args) % 4 = 0
            /\ p.buffer_size = total
            /\ p.ip_bytes = total
            /\ total <= MAX_TCP_DATAGRAM_BYTES

\* an encapsulated packet with options that fills the datagram limit
C6_Witness ==
    /\ Succeeded
    /\ args.address_family = "AF_INET"
    /\ args.udp_src_port # 0
    /\ tcp_option_bytes(args) = 8
    /\ heap[1].tcp.doff = 7
    /\ heap[1].buffer_size = MAX_TCP_DATAGRAM_BYTES

\* C7: a failing call returns no packet and leaves none allocated: the length
\* and flag failures return with packet_new never called, the window failure
\* returns after packet_new and packet_free; an error and a packet are never
\* returned together
C7_NoLeak ==
    /\ Done => ret \in {"NULL", "p"}
    /\ error # NoError => ret = "NULL"
    /\ ret = "NULL" =>
           /\ error # NoError
           /\ heap = <<>>
           /\ IF error.fmt = WindowRequiredFmt
              THEN allocs = 1 /\ frees = 1
              ELSE allocs = 0 /\ frees = 0
    /\ ret = "p" =>
           /\ error = NoError
           /\ Len(heap) = 1
           /\ allocs = 1 /\ frees = 0

\* the failure after the allocation
C7_Witness ==
    /\ Failed
    /\ error.fmt = WindowRequiredFmt
    /\ allocs = 1
    /\ frees = 1
    /\ heap = <<>>

\* C8 as stated: the flag validation comes before the length checks, so an
\* input with a bad flag spec and a length violation fails with the flag error
C8_Original ==
    Done /\ ~FlagsOK(args.flags) /\ ~LengthsOK(args) =>
        error.fmt \in FlagFmts

\* C8 amended: the length checks come before the flag validation, and both
\* before the allocation: an input with a bad flag spec and a length violation
\* fails with the length error, and a bad flag spec is reported only when the
\* lengths pass
C8_Amended ==
    /\ Done /\ ~FlagsOK(args.flags) /\ ~LengthsOK(args) =>
           /\ ret = "NULL"
           /\ error.fmt \in LengthFmts
           /\ allocs = 0
    /\ Done /\ ~FlagsOK(args.flags) /\ LengthsOK(args) =>
           /\ ret = "NULL"
           /\ error.fmt \in FlagFmts
           /\ allocs = 0

\* conflicting flags and an oversized header: the header error is returned
C8_Witness ==
    /\ Failed
    /\ args.flags = <<"E", "0">>
    /\ tcp_option_bytes(args) = 44
    /\ error.fmt = HeaderTooLargeFmt

\* the two bytes of v, most significant first
NetworkOrder(v) == <<v \div 256, v % 256>>

\* C9: a returned packet is UDP-encapsulated iff a UDP port is non-zero; then
\* the IP protocol is UDP, an 8-byte UDP header lies between the IP and the TCP
\* header with the ports in network order, length = 8 + TCP header + payload
\* and checksum 0, and the TCP header starts at ip_header_bytes + 8; otherwise
\* the IP protocol is TCP, there is no UDP header and the TCP header starts at
\* ip_header_bytes
C9_Encapsulation ==
    ret = "p" =>
        LET p == heap[1]
            ihb == ip_header_min_len(args.address_family)
            thb == sizeof_tcp + tcp_option_bytes(args)
            types == [i \in 1..Len(p.headers) |-> p.headers[i].type]
        IN  IF args.udp_src_port # 0 \/ args.udp_dst_port # 0
            THEN /\ "FLAGS_UDP_ENCAPSULATED" \in p.flags
                 /\ p.ip[1].protocol = "IPPROTO_UDP"
                 /\ types = <<ip_header_type(args.address_family),
                              "HEADER_UDP", "HEADER_TCP">>
                 /\ p.headers[2].offset = ihb
                 /\ p.headers[2].header_bytes = 8
                 /\ p.headers[3].offset = ihb + 8
                 /\ p.udp = <<[src_port |-> NetworkOrder(args.udp_src_port),
                               dst_port |-> NetworkOrder(args.udp_dst_port),
                               len |-> NetworkOrder(8 + thb + args.tcp_payload_bytes),
                               check |-> <<0, 0>>]>>
                 /\ p.tcp_offset = ihb + 8
            ELSE /\ "FLAGS_UDP_ENCAPSULATED" \notin p.flags
                 /\ p.ip[1].protocol = "IPPROTO_TCP"
                 /\ types = <<ip_header_type(args.address_family), "HEADER_TCP">>
                 /\ p.headers[2].offset = ihb
                 /\ p.udp = <<>>
                 /\ p.tcp_offset = ihb

\* only the destination port is given: ports 0 / 6000, length 8 + 20
C9_Witness ==
    /\ Succeeded
    /\ args.udp_src_port = 0
    /\ args.udp_dst_port = 6000
    /\ args.tcp_options = NoOptions
    /\ heap[1].udp[1].dst_port = <<23, 112>>
    /\ heap[1].udp[1].len = <<0, 28>>
    /\ heap[1].tcp_offset = 28

ExpectedHints(a) ==
    {h \in {"FLAGS_UDP_ENCAPSULATED", "FLAG_WIN_NOCHECK", "FLAG_OPTIONS_NOCHECK",
            "FLAG_IGNORE_TS_VAL", "FLAG_ABSOLUTE_TS_ECR", "FLAG_ABSOLUTE_SEQ",
            "FLAG_IGNORE_SEQ"} :
        \/ h = "FLAGS_UDP_ENCAPSULATED"
               /\ (a.udp_src_port # 0 \/ a.udp_dst_port # 0)
        \/ h = "FLAG_WIN_NOCHECK" /\ a.window = -1
        \/ h = "FLAG_OPTIONS_NOCHECK" /\ ~a.tcp_options.present
        \/ h = "FLAG_IGNORE_TS_VAL" /\ a.ignore_ts_val
        \/ h = "FLAG_ABSOLUTE_TS_ECR" /\ a.abs_ts_ecr
        \/ h = "FLAG_ABSOLUTE_SEQ" /\ a.abs_seq
        \/ h = "FLAG_IGNORE_SEQ" /\ a.ignore_seq}

\* the bytes of the buffer of a packet
Buffer(p) ==
    [size |-> p.buffer_size, ip |-> p.ip, udp |-> p.udp, tcp |-> p.tcp,
     options |-> p.options]
\* the packet a call with arguments a returns when it succeeds
Built(a) ==
    [SetHints(SetOptions(SetFlagBits(SetWindowField(SetTcpFields(LocateTcp(
        SetIpHeaders(SetTags(packet_new(ip_bytes(a)), a), a), a), a), a), a), a), a)
        EXCEPT !.ip_bytes = ip_bytes(a)]
WithoutHintInputs(a) ==
    [a EXCEPT !.ignore_ts_val = FALSE, !.abs_ts_ecr = FALSE,
              !.abs_seq = FALSE, !.ignore_seq = FALSE]

\* C10: the hint flags of a returned packet are exactly those its inputs call
\* for, and its buffer is the buffer of the same call with the four boolean
\* inputs false
C10_Hints ==
    ret = "p" =>
        /\ heap[1].flags = ExpectedHints(args)
        /\ Buffer(heap[1]) = Buffer(Built(WithoutHintInputs(args)))

\* an options object of length 0, an explicit window of 0 and two of the
\* booleans: just the two hints
C10_Witness ==
    /\ Succeeded
    /\ args.tcp_options = Options(0)
    /\ args.window = 0
    /\ args.ignore_ts_val /\ args.ignore_seq
    /\ ~args.abs_ts_ecr /\ ~args.abs_seq
    /\ args.udp_src_port = 0 /\ args.udp_dst_port = 0
    /\ heap[1].flags = {"FLAG_IGNORE_TS_VAL", "FLAG_IGNORE_SEQ"}

====
